---- MODULE Spec2Model ----
(***************************************************************************)
(* Alge-Bro: timed assessments (Quiz, PracticeProblems), the App state     *)
(* that mounts them and receives their results, and the progress history   *)
(* with its statistics and its stored copy.                                *)
(*                                                                         *)
(* Text is a sequence of one-character strings, so that trim() and         *)
(* toLowerCase() are computed character by character.  A nullable value    *)
(* (number | null, result | null) is a sequence of length at most one:     *)
(* <<>> is null and <<v>> is the value v.                                  *)
(*                                                                         *)
(* React semantics assumed (React 18): a state update caused by a          *)
(* discrete user event (click, input change) is rendered and its effects   *)
(* are flushed before the next event; a state update made in a timer       *)
(* callback is rendered later, and the interval it came from stays         *)
(* registered until the effect's cleanup runs.                             *)
(*                                                                         *)
(* Time is counted in hours since an epoch, in UTC; a day has 24 of them.  *)
(* A date string is [day, time]: "YYYY-MM-DD" is [day |-> d, time |-> <<>>]*)
(* and "YYYY-MM-DDTHH:..Z" is [day |-> d, time |-> <<h>>].  A double is    *)
(* [digits, exp]: the integer written by digits in base 2^13, times        *)
(* 2^exp.                                                                  *)
(***************************************************************************)
EXTENDS Integers, Sequences, FiniteSets, TLC

VARIABLES
    lesson,          \* App: Lesson | null
    activeTab,       \* App: 'lesson' | 'quiz' | 'problems'
    quizResults,     \* App: {score,total,time,mistakes} | null
    problemsResults, \* App: {score,total,time,mistakes} | null
    userAnswers,     \* mounted assessment: one answer per item
    submitted,       \* mounted assessment
    timeLeft,        \* mounted assessment
    timerId,         \* TRUE while an interval of the mounted assessment is registered
    effectPending,   \* TRUE while the timer effect has not yet re-run after a tick
    lag,             \* history: ticks fired since the timer effect last ran
    mounts,          \* history: assessments mounted so far
    ignored,         \* history: handlers invoked on the submitted assessment
    completed,       \* history: onComplete calls so far, with the lesson's topic
    isKeyReady,      \* App
    subject,         \* App: 'Math' | 'Science'
    isLoading,       \* App
    error,           \* App: string | null
    isGeneratingTopics, \* App
    extracting,      \* topic extraction calls that have not settled yet
    extractedTopics, \* App: the topics offered as buttons
    pending,         \* generateLesson calls that have not settled yet
    issued,          \* history: generateLesson calls made so far
    crashed,         \* TRUE once an effect has thrown and React has unmounted the tree
    userProgress,    \* App: the value held as UserProgress
    progressStats,   \* App: the ProgressStats handed to the Dashboard
    storage,         \* localStorage item 'mathAppUserProgress': string | null
    storageMode,     \* environment: which localStorage calls throw
    now,             \* environment: the clock
    tz               \* environment: local time minus UTC

\* the lesson, its results and the mounted assessment
lessonVars == <<lesson, activeTab, quizResults, problemsResults, userAnswers,
                submitted, timeLeft, timerId, effectPending, lag, mounts,
                ignored, completed>>

\* what the App holds and stores about progress
historyVars == <<userProgress, progressStats, storage>>

\* what no handler of a mounted assessment changes
envVars == <<isKeyReady, subject, crashed, storageMode, now, tz, isLoading,
            extractedTopics, pending, issued, error, isGeneratingTopics,
            extracting>>

\* the requests for lessons and for topics
requestVars == <<isLoading, extractedTopics, pending, issued, error,
                 isGeneratingTopics, extracting>>

vars == <<lesson, activeTab, quizResults, problemsResults, userAnswers,
          submitted, timeLeft, timerId, effectPending, lag, mounts, ignored,
          completed, isKeyReady, subject, crashed, userProgress, progressStats,
          storage, storageMode, now, tz, isLoading, extractedTopics, pending,
          issued, error, isGeneratingTopics, extracting>>

-----------------------------------------------------------------------------
(* Program constants *)

QUIZ_TIME_SECONDS == 300
PROBLEMS_TIME_SECONDS == 600

(* Bounds of the model *)

MaxItems == 2        \* items of a quiz / of a problem set
MaxAnsLen == 2       \* characters of a typed answer
MaxCanonLen == 1     \* characters of a canonical answer
MaxLag == 2          \* interval ticks that may fire before the timer effect re-runs
MaxMounts == 3       \* assessments mounted for one lesson
MaxElapsed == 2      \* seconds of each countdown that the App specification follows
MaxRecords == 4      \* records of a stored history
MaxDay == 5          \* latest day of a stored record
MaxOffset == 5       \* hours between local time and UTC
MaxTotal == 20       \* items of a quiz / of a problem set in a stored record
MaxAppends == 2      \* records appended to a loaded history
ClockStep == 6       \* hours that pass in one step of the clock
MaxRequests == 2     \* lessons asked for
MaxExtractions == 2  \* topic extraction calls in flight

NumOptions == 2      \* options of each generated question

-----------------------------------------------------------------------------
(* Text *)

Chars == {" ", "a", "A"}

Strs(n) == UNION {[1..k -> Chars] : k \in 0..n}

NoAnswer == <<"N", "o", " ", "a", "n", "s", "w", "e", "r">>

Digit(k) == <<"0", "1", "2", "3", "4", "5", "6", "7", "8", "9">>[k + 1]

IsWhiteSpace(c) == c = " "

RECURSIVE TrimStart(_)
TrimStart(s) ==
    IF s # <<>> /\ IsWhiteSpace(Head(s)) THEN TrimStart(Tail(s)) ELSE s

RECURSIVE TrimEnd(_)
TrimEnd(s) ==
    IF s # <<>> /\ IsWhiteSpace(s[Len(s)])
    THEN TrimEnd(SubSeq(s, 1, Len(s) - 1))
    ELSE s

\* trim() written as trimStart()
trimStartOnly(s) == TrimStart(s)

trim(s) == TrimEnd(TrimStart(s))

LowerChar(c) == IF c = "A" THEN "a" ELSE c

toLowerCase(s) == [i \in 1..Len(s) |-> LowerChar(s[i])]

-----------------------------------------------------------------------------
(* Lessons *)

QuizQuestion(i, c) ==
    [questionText |-> <<"Q", Digit(i)>>,
     options |-> [k \in 1..NumOptions |-> <<"o", Digit(k - 1)>>],
     correctAnswerIndex |-> c]

PracticeProblem(i, a) ==
    [problemText |-> <<"P", Digit(i)>>, answer |-> a]

QuizOf(cs) == [i \in 1..Len(cs) |-> QuizQuestion(i, cs[i])]

ProblemsOf(as) == [i \in 1..Len(as) |-> PracticeProblem(i, as[i])]

Tuples(S, n) == UNION {[1..k -> S] : k \in 0..n}

Quizzes == {QuizOf(cs) : cs \in Tuples(0..(NumOptions - 1), MaxItems)}

ProblemSets == {ProblemsOf(as) : as \in Tuples(Strs(MaxCanonLen), MaxItems)}

SampleQuiz == QuizOf(<<0, 1>>)

SampleProblems == ProblemsOf(<<<<"a">>, <<" ", "A">>>>)

SampleTopic == <<"T">>

Math == <<"M", "a", "t", "h">>

Science == <<"S", "c", "i", "e", "n", "c", "e">>

SampleLesson ==
    [topic |-> SampleTopic, quiz |-> SampleQuiz,
     practiceProblems |-> SampleProblems]

SampleValues == {<<>>, <<"A", " ">>, <<"a", "a">>}

-----------------------------------------------------------------------------
(* Scoring: the forEach body of handleSubmit *)

NewTally == [finalScore |-> 0, mistakes |-> <<>>]

\* the comparison with a null answer coerced to a number (Number(null) is 0)
QuizIsCorrectCoerced(answer, question) ==
    (IF answer = <<>> THEN 0 ELSE answer[1]) = question.correctAnswerIndex

QuizIsCorrect(answer, question) == answer = <<question.correctAnswerIndex>>

QuizMistake(answer, question) ==
    [questionText |-> question.questionText,
     userAnswer |-> IF answer # <<>> THEN question.options[answer[1] + 1]
                    ELSE NoAnswer,
     correctAnswer |-> question.options[question.correctAnswerIndex + 1]]

ProblemIsCorrect(answer, problem) ==
    toLowerCase(trim(answer)) = toLowerCase(trim(problem.answer))

\* the mistake without the || "No answer" fallback
ProblemMistakePassThrough(answer, problem) ==
    [questionText |-> problem.problemText,
     userAnswer |-> answer,
     correctAnswer |-> problem.answer]

ProblemMistake(answer, problem) ==
    [questionText |-> problem.problemText,
     userAnswer |-> IF answer # <<>> THEN answer ELSE NoAnswer,
     correctAnswer |-> problem.answer]

\* the forEach body with mistakes.unshift in place of mistakes.push
QuizForEachBodyUnshift(tally, answer, question) ==
    IF QuizIsCorrect(answer, question)
    THEN [tally EXCEPT !.finalScore = @ + 1]
    ELSE [tally EXCEPT !.mistakes = <<QuizMistake(answer, question)>> \o @]

QuizForEachBody(tally, answer, question) ==
    IF QuizIsCorrect(answer, question)
    THEN [tally EXCEPT !.finalScore = @ + 1]
    ELSE [tally EXCEPT !.mistakes = Append(@, QuizMistake(answer, question))]

\* the forEach body that skips an empty answer instead of recording a mistake
ProblemsForEachBodySkipEmpty(tally, answer, problem) ==
    IF ProblemIsCorrect(answer, problem)
    THEN [tally EXCEPT !.finalScore = @ + 1]
    ELSE IF answer = <<>> THEN tally
    ELSE [tally EXCEPT !.mistakes = Append(@, ProblemMistake(answer, problem))]

ProblemsForEachBody(tally, answer, problem) ==
    IF ProblemIsCorrect(answer, problem)
    THEN [tally EXCEPT !.finalScore = @ + 1]
    ELSE [tally EXCEPT !.mistakes = Append(@, ProblemMistake(answer, problem))]

RECURSIVE QuizForEach(_, _, _, _)
QuizForEach(answers, questions, index, tally) ==
    IF index > Len(answers) THEN tally
    ELSE QuizForEach(answers, questions, index + 1,
                     QuizForEachBody(tally, answers[index], questions[index]))

RECURSIVE ProblemsForEach(_, _, _, _)
ProblemsForEach(answers, problems, index, tally) ==
    IF index > Len(answers) THEN tally
    ELSE ProblemsForEach(answers, problems, index + 1,
                         ProblemsForEachBody(tally, answers[index], problems[index]))

\* the arguments Quiz.handleSubmit passes to onComplete, as handleQuizComplete
\* stores them
QuizResult(questions, answers, tl) ==
    LET tally == QuizForEach(answers, questions, 1, NewTally)
    IN  [score |-> tally.finalScore,
         total |-> Len(questions),
         time |-> QUIZ_TIME_SECONDS - tl,
         mistakes |-> tally.mistakes]

\* the arguments PracticeProblems.handleSubmit passes to onComplete, as
\* handleProblemsComplete stores them
ProblemsResult(problems, answers, tl) ==
    LET tally == ProblemsForEach(answers, problems, 1, NewTally)
    IN  [score |-> tally.finalScore,
         total |-> Len(problems),
         time |-> PROBLEMS_TIME_SECONDS - tl,
         mistakes |-> tally.mistakes]

-----------------------------------------------------------------------------
(* Dates: Date, toISOString, new Date(string), and the two day predicates *)

\* const oneDay = 24 * 60 * 60 * 1000, in hours
OneDay == 24

Abs(x) == IF x < 0 THEN -x ELSE x

\* Math.round(x / y) for x >= 0, y > 0: halves go up
MathRoundDiv(x, y) == (2 * x + y) \div (2 * y)

\* Date.prototype.toISOString(): the UTC day and the UTC time of day
toISOString(t) == [day |-> t \div OneDay, time |-> <<t % OneDay>>]

\* .split('T')[0]: the text before the first 'T'
splitT0(str) == [day |-> str.day, time |-> <<>>]

\* new Date(str): a date-only string is read as midnight UTC, a date-time
\* string ending in Z as that UTC time
NewDate(str) ==
    OneDay * str.day + (IF str.time = <<>> THEN 0 ELSE str.time[1])

\* getFullYear(), getMonth(), getDate(): the calendar day in local time
LocalDate(t) == (t + tz) \div OneDay

\* setHours(0, 0, 0, 0) followed by getTime(): local midnight of the same day
setHours0(t) == LocalDate(t) * OneDay - tz

areConsecutiveDays(date1, date2) ==
    MathRoundDiv(Abs(setHours0(date1) - setHours0(date2)), OneDay) = 1

\* the two instants compared, not their days
isSameDayInstant(date1, date2) == date1 = date2

isSameDay(date1, date2) == LocalDate(date1) = LocalDate(date2)

-----------------------------------------------------------------------------
(* Doubles: the quotient, the product and Math.round of averageScore *)

Limb == 8192          \* base of the digits of a double's integer
LimbBits == 13
DoubleBits == 53      \* significant bits of a double

Zero == [digits |-> <<0, 0, 0, 0, 0>>, exp |-> 0]

RECURSIVE BitLen(_)
BitLen(n) == IF n = 0 THEN 0 ELSE 1 + BitLen(n \div 2)

\* the least i with a * 2^i >= b
RECURSIVE ScaleUp(_, _)
ScaleUp(a, b) == IF a >= b THEN 0 ELSE 1 + ScaleUp(2 * a, b)

\* the greatest j with b * 2^j <= a, for b <= a
RECURSIVE ScaleDown(_, _)
ScaleDown(a, b) == IF 2 * b > a THEN 0 ELSE 1 + ScaleDown(a, 2 * b)

\* digits plus c at position idx, carried towards the first digit
RECURSIVE AddCarry(_, _, _)
AddCarry(ds, idx, c) ==
    IF idx = 1 THEN [ds EXCEPT ![1] = ds[1] + c]
    ELSE AddCarry([ds EXCEPT ![idx] = (ds[idx] + c) % Limb], idx - 1,
                  (ds[idx] + c) \div Limb)

\* digits times k from position idx on, carried towards the first digit
RECURSIVE MulCarry(_, _, _, _)
MulCarry(ds, k, idx, c) ==
    IF idx = 1 THEN [ds EXCEPT ![1] = ds[1] * k + c]
    ELSE MulCarry([ds EXCEPT ![idx] = (ds[idx] * k + c) % Limb], k, idx - 1,
                  (ds[idx] * k + c) \div Limb)

\* the digits of the quotient a / b after its leading 1: n more limbs, then
\* the remainder
RECURSIVE LongDivision(_, _, _, _)
LongDivision(r, b, n, ds) ==
    IF n = 0 THEN [digits |-> ds, rem |-> r]
    ELSE LongDivision((r * Limb) % b, b, n - 1,
                      Append(ds, (r * Limb) \div b))

\* the integer of ds rounded to DoubleBits significant bits, ties to even
RoundToDouble(ds) ==
    LET sh == LimbBits * (Len(ds) - 1) + BitLen(ds[1]) - DoubleBits
        last == ds[Len(ds)]
        low == last % (2 ^ sh)
        odd == (last \div (2 ^ sh)) % 2 = 1
        base == [ds EXCEPT ![Len(ds)] = last - low]
    IN  IF sh <= 0 THEN ds
        ELSE IF 2 * low > 2 ^ sh \/ (2 * low = 2 ^ sh /\ odd)
             THEN AddCarry(base, Len(ds), 2 ^ sh)
             ELSE base

\* a / b in double precision, for integers a >= 0, b > 0
Divide(a, b) ==
    IF a = 0 THEN Zero
    ELSE LET i == ScaleUp(a, b)
             j == ScaleDown(a * 2 ^ i, b)
             q == LongDivision(a * 2 ^ i - b * 2 ^ j, b * 2 ^ j, 4, <<1>>)
             up == \/ 2 * q.rem > b * 2 ^ j
                   \/ 2 * q.rem = b * 2 ^ j /\ q.digits[5] % 2 = 1
         IN  [digits |-> IF up THEN AddCarry(q.digits, 5, 1) ELSE q.digits,
              exp |-> j - i - (DoubleBits - 1)]

\* x * k in double precision, for an integer 0 < k < Limb
Times(x, k) ==
    IF x = Zero THEN Zero
    ELSE [digits |-> RoundToDouble(MulCarry(x.digits, k, Len(x.digits), 0)),
          exp |-> x.exp]

\* digit j of ds counted from the least significant, which is digit 0
DigitAt(ds, j) == IF j \in 0..(Len(ds) - 1) THEN ds[Len(ds) - j] ELSE 0

\* bit i of the integer of ds
BitAt(ds, i) == (DigitAt(ds, i \div LimbBits) \div (2 ^ (i % LimbBits))) % 2

\* the integer of ds divided by 2^n, rounded down
ShiftRight(ds, n) ==
    LET a == n \div LimbBits
        b == n % LimbBits
    IN  DigitAt(ds, a) \div (2 ^ b)
        + DigitAt(ds, a + 1) * 2 ^ (LimbBits - b)
        + DigitAt(ds, a + 2) * 2 ^ (2 * LimbBits - b)

\* Math.round of a double 0 <= x < 2^26: the nearest integer, halves go up
MathRound(x) ==
    IF x = Zero THEN 0
    ELSE ShiftRight(x.digits, -x.exp) + BitAt(x.digits, -x.exp - 1)

\* Math.round((a / b) * 100)
Percent(a, b) == MathRound(Times(Divide(a, b), 100))

-----------------------------------------------------------------------------
(* Progress statistics: calculateStats *)

NoStats ==
    [currentStreak |-> 0, longestStreak |-> 0, lessonsCompleted |-> 0,
     averageScore |-> 0]

\* the values of seq, each kept at its first occurrence
RECURSIVE Distinct(_)
Distinct(seq) ==
    IF seq = <<>> THEN <<>>
    ELSE LET front == Distinct(SubSeq(seq, 1, Len(seq) - 1))
             last == seq[Len(seq)]
         IN  IF \E i \in 1..Len(front) : front[i] = last THEN front
             ELSE Append(front, last)

\* the spread without the Set
NewSetKeepAll(seq) == seq

\* [...new Set(seq)]
NewSet(seq) == Distinct(seq)

\* sort((a, b) => new Date(b).getTime() - new Date(a).getTime()): latest
\* first, equal instants in their order of arrival
RECURSIVE SortLatestFirst(_)
SortLatestFirst(seq) ==
    IF seq = <<>> THEN <<>>
    ELSE LET front == SortLatestFirst(SubSeq(seq, 1, Len(seq) - 1))
             last == seq[Len(seq)]
             k == Cardinality({i \in 1..Len(front) :
                                  NewDate(front[i]) >= NewDate(last)})
         IN  SubSeq(front, 1, k) \o <<last>> \o SubSeq(front, k + 1, Len(front))

\* the days in the order in which they were recorded
SortedUnsorted(seq) == seq

\* [...].sort(...)
Sorted(seq) == SortLatestFirst(seq)

\* the loop of the current streak from index i on: it stops at the first gap
RECURSIVE CurrentStreakLoop(_, _, _)
CurrentStreakLoop(uniqueDates, i, currentStreak) ==
    IF i > Len(uniqueDates) - 1 THEN currentStreak
    ELSE IF areConsecutiveDays(uniqueDates[i], uniqueDates[i + 1])
         THEN CurrentStreakLoop(uniqueDates, i + 1, currentStreak + 1)
         ELSE currentStreak

\* the current streak counting every recorded day
CurrentStreakAllDays(uniqueDates) == Len(uniqueDates)

\* currentStreak = 1 and the loop that follows
CurrentStreak(uniqueDates) == CurrentStreakLoop(uniqueDates, 1, 1)

\* tempStreak++ without "else tempStreak = 1"
NextTempStreakNoReset(tempStreak, date1, date2) ==
    IF areConsecutiveDays(date1, date2) THEN tempStreak + 1 ELSE tempStreak

\* one turn of the loop of the longest streak: tempStreak++ or tempStreak = 1
NextTempStreak(tempStreak, date1, date2) ==
    IF areConsecutiveDays(date1, date2) THEN tempStreak + 1 ELSE 1

\* the loop of the longest streak from index i on
RECURSIVE LongestStreakLoop(_, _, _, _)
LongestStreakLoop(uniqueDates, i, tempStreak, longestStreak) ==
    IF i > Len(uniqueDates) - 1 THEN longestStreak
    ELSE LET temp == NextTempStreak(tempStreak, uniqueDates[i],
                                    uniqueDates[i + 1])
         IN  LongestStreakLoop(uniqueDates, i + 1, temp,
                 IF temp > longestStreak THEN temp ELSE longestStreak)

\* records.reduce((acc, r) => acc + r.quizScore + r.problemsScore, 0)
RECURSIVE TotalScore(_)
TotalScore(records) ==
    IF records = <<>> THEN 0
    ELSE TotalScore(SubSeq(records, 1, Len(records) - 1))
         + records[Len(records)].quizScore
         + records[Len(records)].problemsScore

\* records.reduce((acc, r) => acc + r.quizTotal + r.problemsTotal, 0)
RECURSIVE TotalPossible(_)
TotalPossible(records) ==
    IF records = <<>> THEN 0
    ELSE TotalPossible(SubSeq(records, 1, Len(records) - 1))
         + records[Len(records)].quizTotal
         + records[Len(records)].problemsTotal

\* calculateStats(records), called when the clock shows now
calculateStats(records) ==
    IF Len(records) = 0 THEN NoStats
    ELSE
    LET uniqueDays ==
            Sorted(NewSet([i \in 1..Len(records) |-> records[i].date]))
        uniqueDates == [i \in 1..Len(uniqueDays) |-> NewDate(uniqueDays[i])]
        today == now
        latestRecordDate == uniqueDates[1]
        totalScore == TotalScore(records)
        totalPossible == TotalPossible(records)
    IN  [currentStreak |->
             IF \/ isSameDay(today, latestRecordDate)
                \/ areConsecutiveDays(today, latestRecordDate)
             THEN CurrentStreak(uniqueDates)
             ELSE 0,
         longestStreak |-> LongestStreakLoop(uniqueDates, 1, 1, 1),
         lessonsCompleted |-> Len(records),
         averageScore |->
             IF totalPossible > 0 THEN Percent(totalScore, totalPossible)
             ELSE 0]

-----------------------------------------------------------------------------
(* Stored progress: JSON text, loadProgress, saveProgress *)

\* A value is [kind, records]: a UserProgress { records: [...] }, null, or
\* some other value, whose records property is not an array ({}, [], 5, "x").
\* A string is [syntax, value]: the JSON text of a value, a text that is not
\* JSON, or the empty string.

Progress(records) == [kind |-> "UserProgress", records |-> records]

Null == [kind |-> "null", records |-> <<>>]

Other == [kind |-> "other", records |-> <<>>]

NotJSON == [syntax |-> "garbage", value |-> Null]

EmptyString == [syntax |-> "empty", value |-> Null]

\* JSON.stringify(value)
JSONstringify(value) == [syntax |-> "json", value |-> value]

\* JSON.parse(text): the value, or a SyntaxError
JSONparse(text) ==
    IF text.syntax = "json" THEN [throws |-> FALSE, value |-> text.value]
    ELSE [throws |-> TRUE, value |-> Null]

StorageModes == {"ok", "full", "denied"}

\* localStorage.getItem(PROGRESS_KEY) throws
GetItemThrows == storageMode = "denied"

\* localStorage.setItem(PROGRESS_KEY, ...) throws
SetItemThrows == storageMode \in {"full", "denied"}

\* loadProgress returning its default whatever is stored
loadProgressDefault == Progress(<<>>)

\* loadProgress(): what it returns
loadProgress ==
    IF GetItemThrows THEN Progress(<<>>)
    ELSE IF storage = <<>> \/ storage[1].syntax = "empty" THEN Progress(<<>>)
         ELSE IF JSONparse(storage[1]).throws THEN Progress(<<>>)
              ELSE JSONparse(storage[1]).value

\* saveProgress writing the last record only
saveProgressDelta(progress) ==
    IF SetItemThrows THEN storage
    ELSE <<JSONstringify(Progress(SubSeq(progress.records,
                                         Len(progress.records),
                                         Len(progress.records))))>>

\* saveProgress(progress): the stored item afterwards
saveProgress(progress) ==
    IF SetItemThrows THEN storage
    ELSE <<JSONstringify(progress)>>

-----------------------------------------------------------------------------
(* The assessment mounted by the active tab *)

Assessments == {"quiz", "problems"}

Budget(tab) ==
    IF tab = "quiz" THEN QUIZ_TIME_SECONDS ELSE PROBLEMS_TIME_SECONDS

Items(tab) ==
    IF tab = "quiz" THEN lesson[1].quiz ELSE lesson[1].practiceProblems

Result(tab, answers, tl) ==
    IF tab = "quiz" THEN QuizResult(Items(tab), answers, tl)
    ELSE ProblemsResult(Items(tab), answers, tl)

\* useState initial values: Array(n).fill(null) for the quiz, Array(n).fill('')
\* for the problems
InitialAnswers(tab) == [i \in 1..Len(Items(tab)) |-> <<>>]

\* the main screen is rendered: the key is ready and no effect has thrown
Rendered == isKeyReady /\ ~crashed

Mounted == Rendered /\ lesson # <<>> /\ activeTab \in Assessments

\* handleSubmit without its "if (submitted) return"
HandleSubmitNoGuard(answers, sub, tl) ==
    [submitted |-> TRUE, calls |-> <<Result(activeTab, answers, tl)>>]

\* handleSubmit, called on state (answers, sub, tl): the new value of submitted
\* and the onComplete calls made
HandleSubmit(answers, sub, tl) ==
    IF sub THEN [submitted |-> sub, calls |-> <<>>]
    ELSE [submitted |-> TRUE, calls |-> <<Result(activeTab, answers, tl)>>]

\* the timer effect without its "if (submitted) return"
TimerEffectNoGuard(answers, sub, tl) ==
    IF tl <= 0
    THEN [timerId |-> FALSE] @@ HandleSubmit(answers, sub, tl)
    ELSE [timerId |-> TRUE, submitted |-> sub, calls |-> <<>>]

\* the timer effect run on state (answers, sub, tl), after the cleanup of its
\* previous run: whether an interval is registered, and what handleSubmit did
TimerEffect(answers, sub, tl) ==
    IF sub THEN [timerId |-> FALSE, submitted |-> sub, calls |-> <<>>]
    ELSE IF tl <= 0
         THEN [timerId |-> FALSE] @@ HandleSubmit(answers, sub, tl)
         ELSE [timerId |-> TRUE, submitted |-> sub, calls |-> <<>>]

\* the record of the effect with the problems mistakes first
NewRecordProblemsFirst(l, q, p) ==
    [date |-> splitT0(toISOString(now)),
     topic |-> l.topic \o <<" ", "(">> \o subject \o <<")">>,
     quizScore |-> q.score,
     quizTotal |-> q.total,
     quizTimeTaken |-> q.time,
     problemsScore |-> p.score,
     problemsTotal |-> p.total,
     problemsTimeTaken |-> p.time,
     mistakes |-> p.mistakes \o q.mistakes]

\* newRecord of the record-append effect, for lesson l and results q, p
NewRecord(l, q, p) ==
    [date |-> splitT0(toISOString(now)),
     topic |-> l.topic \o <<" ", "(">> \o subject \o <<")">>,
     quizScore |-> q.score,
     quizTotal |-> q.total,
     quizTimeTaken |-> q.time,
     problemsScore |-> p.score,
     problemsTotal |-> p.total,
     problemsTimeTaken |-> p.time,
     mistakes |-> q.mistakes \o p.mistakes]

\* updatedProgress with the new record put first
UpdatedProgressPrepend(progress, newRecord) ==
    [progress EXCEPT !.records = <<newRecord>> \o @]

\* updatedProgress: { ...userProgress, records: [...records, newRecord] }
UpdatedProgress(progress, newRecord) ==
    [progress EXCEPT !.records = Append(@, newRecord)]

\* the effect on [problemsResults], run in a render that holds lesson l and
\* results q and p
RecordAppendEffect(l, q, p) ==
    IF l # <<>> /\ q # <<>> /\ p # <<>>
    THEN LET updatedProgress ==
                 UpdatedProgress(userProgress, NewRecord(l[1], q[1], p[1]))
         IN  /\ storage' = saveProgress(updatedProgress)
             /\ userProgress' = updatedProgress
             /\ progressStats' = calculateStats(updatedProgress.records)
    ELSE UNCHANGED historyVars

\* handleQuizComplete / handleProblemsComplete for each onComplete call, and
\* the record-append effect when setProblemsResults was called
OnComplete(calls, via) ==
    LET q == IF activeTab = "quiz" /\ calls # <<>>
             THEN <<calls[Len(calls)]>> ELSE quizResults
        p == IF activeTab = "problems" /\ calls # <<>>
             THEN <<calls[Len(calls)]>> ELSE problemsResults
    IN  /\ completed' = completed \o
               [i \in 1..Len(calls) |->
                   [tab |-> activeTab, via |-> via, result |-> calls[i],
                    topic |-> lesson[1].topic]]
        /\ quizResults' = q
        /\ problemsResults' = p
        /\ IF activeTab = "problems" /\ calls # <<>>
           THEN RecordAppendEffect(lesson, q, p)
           ELSE UNCHANGED historyVars

\* the render that follows a state update and the timer effect that follows it;
\* calls are the onComplete calls the handler itself made
Commit(answers, sub, tl, calls, via) ==
    LET eff == TimerEffect(answers, sub, tl)
    IN  /\ userAnswers' = answers
        /\ submitted' = eff.submitted
        /\ timeLeft' = tl
        /\ timerId' = eff.timerId
        /\ effectPending' = FALSE
        /\ lag' = 0
        /\ OnComplete(calls \o eff.calls, IF calls # <<>> THEN via ELSE "timer")

\* the interval callback: setTimeLeft(prevTime => prevTime - 1)
IntervalTick ==
    /\ Mounted
    /\ timerId
    /\ lag < MaxLag
    /\ timeLeft' = timeLeft - 1
    /\ effectPending' = TRUE
    /\ lag' = lag + 1
    /\ UNCHANGED <<lesson, activeTab, quizResults, problemsResults, userAnswers,
                   submitted, timerId, mounts, ignored, completed>>
    /\ UNCHANGED <<historyVars, envVars>>

\* the timer effect re-runs after the render caused by a tick
TimerEffectRun ==
    /\ Mounted
    /\ effectPending
    /\ Commit(userAnswers, submitted, timeLeft, <<>>, "timer")
    /\ UNCHANGED <<lesson, activeTab, mounts, ignored>>
    /\ UNCHANGED envVars

\* handleAnswerChange(index, value), with the render and effect that follow
HandleAnswerChange(index, value) ==
    /\ Mounted
    /\ index \in 1..Len(userAnswers)
    /\ IF submitted
       THEN /\ ignored' = ignored \cup {"handleAnswerChange"}
            /\ UNCHANGED <<quizResults, problemsResults, userAnswers, submitted,
                           timeLeft, timerId, effectPending, lag, completed>>
            /\ UNCHANGED historyVars
       ELSE /\ Commit([userAnswers EXCEPT ![index] = value], submitted, timeLeft,
                      <<>>, "timer")
            /\ UNCHANGED ignored
    /\ UNCHANGED <<lesson, activeTab, mounts>>
    /\ UNCHANGED envVars

\* a call of handleSubmit from the UI, with the render and effect that follow
HandleSubmitClick ==
    /\ Mounted
    /\ LET hs == HandleSubmit(userAnswers, submitted, timeLeft)
       IN  IF hs.calls = <<>>
           THEN /\ ignored' = ignored \cup {"handleSubmit"}
                /\ UNCHANGED <<quizResults, problemsResults, userAnswers,
                               submitted, timeLeft, timerId, effectPending, lag,
                               completed>>
                /\ UNCHANGED historyVars
           ELSE /\ Commit(userAnswers, hs.submitted, timeLeft, hs.calls, "click")
                /\ UNCHANGED ignored
    /\ UNCHANGED <<lesson, activeTab, mounts>>
    /\ UNCHANGED envVars

\* a tab button: the assessment of the old tab unmounts (its effect cleanup
\* clears the interval) and the assessment of the new tab mounts
SetActiveTab(tab) ==
    /\ Rendered
    /\ lesson # <<>>
    /\ tab # activeTab
    /\ tab = "problems" => quizResults # <<>>
    /\ tab \in Assessments => mounts < MaxMounts
    /\ activeTab' = tab
    /\ mounts' = IF tab \in Assessments THEN mounts + 1 ELSE mounts
    /\ userAnswers' = IF tab \in Assessments THEN InitialAnswers(tab) ELSE <<>>
    /\ submitted' = FALSE
    /\ timeLeft' = IF tab \in Assessments THEN Budget(tab) ELSE 0
    /\ timerId' = (tab \in Assessments /\ Budget(tab) > 0)
    /\ effectPending' = FALSE
    /\ lag' = 0
    /\ ignored' = {}
    /\ UNCHANGED <<lesson, quizResults, problemsResults, completed>>
    /\ UNCHANGED <<historyVars, envVars>>

-----------------------------------------------------------------------------
(* The key, the load effect, and the environment *)

\* the effect on [isKeyReady], run in the render in which the key is ready;
\* reading .records of null, or .length of a records property that is not an
\* array, throws a TypeError out of the effect
LoadEffect ==
    LET loadedProgress == loadProgress
    IN  /\ userProgress' = loadedProgress
        /\ IF loadedProgress.kind = "UserProgress"
           THEN /\ progressStats' = calculateStats(loadedProgress.records)
                /\ crashed' = FALSE
           ELSE /\ progressStats' = progressStats
                /\ crashed' = TRUE

\* handleSelectKey once openSelectKey() has resolved, with the render and the
\* load effect that follow
HandleSelectKey ==
    /\ ~isKeyReady
    /\ ~crashed
    /\ isKeyReady' = TRUE
    /\ LoadEffect
    /\ UNCHANGED <<lessonVars, subject, storage, storageMode, now, tz,
                   requestVars>>

\* h hours pass
PassTime(h) ==
    /\ now' = now + h
    /\ UNCHANGED <<lessonVars, historyVars, isKeyReady, subject, crashed,
                   storageMode, tz, requestVars>>

\* localStorage starts or stops throwing
StorageModeChange(mode) ==
    /\ mode # storageMode
    /\ storageMode' = mode
    /\ UNCHANGED <<lessonVars, historyVars, isKeyReady, subject, crashed, now,
                   tz, requestVars>>

-----------------------------------------------------------------------------
(* Error messages *)

\* setError('Please enter a topic.')
PleaseEnterATopic ==
    <<"P", "l", "e", "a", "s", "e", " ", "e", "n", "t", "e", "r", " ", "a",
      " ", "t", "o", "p", "i", "c", ".">>

\* the Error of getAiClient
KeyNotFound ==
    <<"A", "P", "I", " ", "k", "e", "y", " ", "n", "o", "t", " ", "f", "o",
      "u", "n", "d", " ", "i", "n", " ", "s", "t", "o", "r", "a", "g", "e",
      ".", " ", "P", "l", "e", "a", "s", "e", " ", "s", "e", "t", " ", "i",
      "t", " ", "o", "n", " ", "t", "h", "e", " ", "s", "t", "a", "r", "t",
      " ", "s", "c", "r", "e", "e", "n", ".">>

\* the Error of generateLesson for an invalid key
KeyNotValid ==
    <<"Y", "o", "u", "r", " ", "A", "P", "I", " ", "k", "e", "y", " ", "i",
      "s", " ", "n", "o", "t", " ", "v", "a", "l", "i", "d", ".", " ", "P",
      "l", "e", "a", "s", "e", " ", "c", "h", "e", "c", "k", " ", "i", "t",
      " ", "a", "n", "d", " ", "t", "r", "y", " ", "a", "g", "a", "i", "n",
      ".">>

\* the Error of generateLesson for any other failure
LessonFailed ==
    <<"F", "a", "i", "l", "e", "d", " ", "t", "o", " ", "g", "e", "n", "e",
      "r", "a", "t", "e", " ", "l", "e", "s", "s", "o", "n", ".", " ", "T",
      "h", "e", " ", "t", "o", "p", "i", "c", " ", "m", "i", "g", "h", "t",
      " ", "b", "e", " ", "t", "o", "o", " ", "b", "r", "o", "a", "d", " ",
      "o", "r", " ", "t", "h", "e", " ", "s", "e", "r", "v", "i", "c", "e",
      " ", "i", "s", " ", "c", "u", "r", "r", "e", "n", "t", "l", "y", " ",
      "u", "n", "a", "v", "a", "i", "l", "a", "b", "l", "e", ".", " ", "P",
      "l", "e", "a", "s", "e", " ", "t", "r", "y", " ", "a", "g", "a", "i",
      "n", ".">>

\* the Error of extractTopicsFromFile
FileTopicsFailed ==
    <<"F", "a", "i", "l", "e", "d", " ", "t", "o", " ", "e", "x", "t", "r",
      "a", "c", "t", " ", "t", "o", "p", "i", "c", "s", " ", "f", "r", "o",
      "m", " ", "t", "h", "e", " ", "f", "i", "l", "e", ".", " ", "P", "l",
      "e", "a", "s", "e", " ", "e", "n", "s", "u", "r", "e", " ", "i", "t",
      "'", "s", " ", "a", " ", "v", "a", "l", "i", "d", " ", "c", "u", "r",
      "r", "i", "c", "u", "l", "u", "m", " ", "d", "o", "c", "u", "m", "e",
      "n", "t", ".">>

\* the Error of getKhanAcademyTopics
KhanTopicsFailed ==
    <<"F", "a", "i", "l", "e", "d", " ", "t", "o", " ", "f", "e", "t", "c",
      "h", " ", "K", "h", "a", "n", " ", "A", "c", "a", "d", "e", "m", "y",
      " ", "t", "o", "p", "i", "c", "s", ".", " ", "P", "l", "e", "a", "s",
      "e", " ", "t", "r", "y", " ", "a", "g", "a", "i", "n", " ", "l", "a",
      "t", "e", "r", ".">>

\* the text that the handlers look for in a message
API_KEY == <<"A", "P", "I", "_", "K", "E", "Y">>

\* text.includes(part)
Includes(text, part) ==
    \E i \in 1..(Len(text) - Len(part) + 1) :
        SubSeq(text, i, i + Len(part) - 1) = part

\* what a rejected generateLesson call can throw
LessonErrors == {KeyNotFound, KeyNotValid, LessonFailed}

\* what a rejected topic extraction call can throw
TopicsErrors == {KeyNotFound, FileTopicsFailed, KhanTopicsFailed}

-----------------------------------------------------------------------------
(* Lesson requests *)

\* the topic of the n-th lesson asked for
Topic(n) == SampleTopic \o <<Digit(n)>>

\* what generateLesson(r.topic, subject) resolves with
GeneratedLesson(r) ==
    [topic |-> r.topic, quiz |-> SampleQuiz,
     practiceProblems |-> SampleProblems]

\* handleGenerateLesson(topic) up to its await, with the render that follows:
\* the lesson is gone, so its assessment unmounts; the effect on
\* [problemsResults] finds no lesson
HandleGenerateLesson(topic) ==
    /\ Rendered
    /\ IF topic = <<>>
       THEN /\ error' = <<PleaseEnterATopic>>
            /\ UNCHANGED <<lessonVars, isLoading, extractedTopics, pending,
                           issued>>
       ELSE /\ isLoading' = TRUE
            /\ error' = <<>>
            /\ lesson' = <<>>
            /\ quizResults' = <<>>
            /\ problemsResults' = <<>>
            /\ activeTab' = "lesson"
            /\ userAnswers' = <<>>
            /\ submitted' = FALSE
            /\ timeLeft' = 0
            /\ timerId' = FALSE
            /\ effectPending' = FALSE
            /\ lag' = 0
            /\ ignored' = {}
            /\ pending' = pending \cup {[id |-> issued + 1, topic |-> topic]}
            /\ issued' = issued + 1
            /\ UNCHANGED <<mounts, completed, extractedTopics>>
    /\ UNCHANGED <<historyVars, isKeyReady, subject, crashed, storageMode, now,
                   tz, isGeneratingTopics, extracting>>

\* the generateLesson call of request r resolves: setLesson(newLesson) and the
\* finally block. A mounted assessment keeps its state under the new lesson;
\* an assessment tab that handleSubjectChange left active mounts its assessment
GenerationResolve(r) ==
    /\ r \in pending
    /\ ~crashed
    /\ lesson' = <<GeneratedLesson(r)>>
    /\ isLoading' = FALSE
    /\ extractedTopics' = <<>>
    /\ pending' = pending \ {r}
    /\ IF lesson = <<>> /\ activeTab \in Assessments
       THEN /\ mounts < MaxMounts
            /\ mounts' = mounts + 1
            /\ userAnswers' =
                   [i \in 1..Len(IF activeTab = "quiz"
                                 THEN GeneratedLesson(r).quiz
                                 ELSE GeneratedLesson(r).practiceProblems)
                       |-> <<>>]
            /\ submitted' = FALSE
            /\ timeLeft' = Budget(activeTab)
            /\ timerId' = (Budget(activeTab) > 0)
            /\ effectPending' = FALSE
            /\ lag' = 0
            /\ ignored' = {}
       ELSE UNCHANGED <<userAnswers, submitted, timeLeft, timerId,
                        effectPending, lag, mounts, ignored>>
    /\ UNCHANGED <<activeTab, quizResults, problemsResults, completed, issued>>
    /\ UNCHANGED <<historyVars, isKeyReady, subject, crashed, storageMode, now,
                   tz, error, isGeneratingTopics, extracting>>

\* a catch block of the App on the Error thrown: setError(message) and, for a
\* message that holds "API_KEY", setIsKeyReady(false), whose render shows the
\* key screen in place of the lesson and its assessment
CatchError(message) ==
    /\ error' = <<message>>
    /\ IF Includes(message, API_KEY)
       THEN /\ isKeyReady' = FALSE
            /\ userAnswers' = <<>>
            /\ submitted' = FALSE
            /\ timeLeft' = 0
            /\ timerId' = FALSE
            /\ effectPending' = FALSE
            /\ lag' = 0
            /\ ignored' = {}
       ELSE UNCHANGED <<isKeyReady, userAnswers, submitted, timeLeft, timerId,
                        effectPending, lag, ignored>>
    /\ UNCHANGED <<lesson, activeTab, quizResults, problemsResults, mounts,
                   completed>>

\* the generateLesson call of request r rejects with message: the catch block
\* and the finally block
GenerationFail(r, message) ==
    /\ r \in pending
    /\ ~crashed
    /\ CatchError(message)
    /\ isLoading' = FALSE
    /\ extractedTopics' = <<>>
    /\ pending' = pending \ {r}
    /\ UNCHANGED <<historyVars, subject, crashed, storageMode, now, tz, issued,
                   isGeneratingTopics, extracting>>

\* the topics that an extraction call resolves with
ExtractedTopics == [n \in 1..MaxRequests |-> Topic(n)]

\* what handleFileUpload and handleKhanTopics do up to their await
ExtractionStart ==
    /\ Rendered
    /\ isGeneratingTopics' = TRUE
    /\ error' = <<>>
    /\ extractedTopics' = <<>>
    /\ extracting' = extracting + 1
    /\ UNCHANGED <<lessonVars, historyVars, isKeyReady, subject, crashed,
                   storageMode, now, tz, isLoading, pending, issued>>

\* handleFileUpload(event) up to its await; files holds the chosen file, if any
HandleFileUpload(files) ==
    IF files = <<>>
    THEN Rendered /\ UNCHANGED vars
    ELSE ExtractionStart

\* handleKhanTopics up to its await
HandleKhanTopics == ExtractionStart

\* an extraction call resolves: setExtractedTopics(topics) and the finally
\* block
ExtractionResolve ==
    /\ extracting > 0
    /\ ~crashed
    /\ extractedTopics' = ExtractedTopics
    /\ isGeneratingTopics' = FALSE
    /\ extracting' = extracting - 1
    /\ UNCHANGED <<lessonVars, historyVars, isKeyReady, subject, crashed,
                   storageMode, now, tz, isLoading, pending, issued, error>>

\* an extraction call rejects with message: the catch block and the finally
\* block
ExtractionFail(message) ==
    /\ extracting > 0
    /\ ~crashed
    /\ CatchError(message)
    /\ isGeneratingTopics' = FALSE
    /\ extracting' = extracting - 1
    /\ UNCHANGED <<historyVars, subject, crashed, storageMode, now, tz,
                   isLoading, extractedTopics, pending, issued>>

\* handleSubjectChange(newSubject), with the render that follows: the lesson
\* is gone, so its assessment unmounts; the tab and the results stay
HandleSubjectChange(newSubject) ==
    /\ Rendered
    /\ subject' = newSubject
    /\ extractedTopics' = <<>>
    /\ lesson' = <<>>
    /\ error' = <<>>
    /\ userAnswers' = <<>>
    /\ submitted' = FALSE
    /\ timeLeft' = 0
    /\ timerId' = FALSE
    /\ effectPending' = FALSE
    /\ lag' = 0
    /\ ignored' = {}
    /\ UNCHANGED <<activeTab, quizResults, problemsResults, mounts, completed>>
    /\ UNCHANGED <<historyVars, isKeyReady, crashed, storageMode, now, tz,
                   isLoading, pending, issued, isGeneratingTopics, extracting>>

-----------------------------------------------------------------------------
(* Inputs *)

QuizValues == {<<k>> : k \in 0..(NumOptions - 1)}

TextValues == Strs(MaxAnsLen)

SampleInputs == IF activeTab = "quiz" THEN QuizValues ELSE SampleValues

AllInputs == IF activeTab = "quiz" THEN QuizValues ELSE TextValues

Tabs == {"lesson", "quiz", "problems"}

\* the tallies of one lesson: both totals are 0 or n
ScoreCards(n) ==
    {[quizScore |-> qs, quizTotal |-> qt, problemsScore |-> ps,
      problemsTotal |-> pt] :
        qs \in 0..n, qt \in {0, n}, ps \in 0..n, pt \in {0, n}}
    \ {c \in [quizScore : 0..n, quizTotal : {0, n}, problemsScore : 0..n,
               problemsTotal : {0, n}] :
           c.quizScore > c.quizTotal \/ c.problemsScore > c.problemsTotal}

FullMarks ==
    [quizScore |-> 1, quizTotal |-> 1, problemsScore |-> 1, problemsTotal |-> 1]

SampleMistake ==
    [questionText |-> <<"Q", "1">>, userAnswer |-> NoAnswer,
     correctAnswer |-> <<"o", "0">>]

\* a record as the record-append effect writes it, for a lesson of the
\* sample topic completed at once with the tallies of card
RecordOf(date, card) ==
    [date |-> date,
     topic |-> SampleTopic \o <<" ", "(">> \o Math \o <<")">>,
     quizScore |-> card.quizScore,
     quizTotal |-> card.quizTotal,
     quizTimeTaken |-> 0,
     problemsScore |-> card.problemsScore,
     problemsTotal |-> card.problemsTotal,
     problemsTimeTaken |-> 0,
     mistakes |-> [i \in 1..(card.quizTotal - card.quizScore
                             + card.problemsTotal - card.problemsScore)
                      |-> SampleMistake]]

DateOnly(d) == [day |-> d, time |-> <<>>]

\* histories of up to MaxRecords lessons on the days 1..MaxDay, in any order
DateHistories ==
    {[i \in 1..Len(ds) |-> RecordOf(DateOnly(ds[i]), FullMarks)] :
        ds \in Tuples(1..MaxDay, MaxRecords)}

\* the hours of day MaxDay and of the day after it
RecentHours == (MaxDay * OneDay)..((MaxDay + 2) * OneDay - 1)

TZOffsets == {-MaxOffset, 0, MaxOffset}

\* histories of one lesson with totals 0 or MaxTotal, and of two lessons with
\* totals 0 or 1, all on day MaxDay
ScoreHistories ==
    {<<RecordOf(DateOnly(MaxDay), c)>> : c \in ScoreCards(MaxTotal)}
    \cup {<<RecordOf(DateOnly(MaxDay), c), RecordOf(DateOnly(MaxDay), d)>> :
             c \in ScoreCards(1), d \in ScoreCards(1)}

\* stored items that hold no UserProgress
BrokenItems ==
    {<<NotJSON>>, <<EmptyString>>, <<JSONstringify(Null)>>,
     <<JSONstringify(Other)>>}

-----------------------------------------------------------------------------
(* Records appended to a loaded history *)

\* date of the record-append effect of App.tsx: new Date().toISOString()
\* .split('T')[0]
DateWritten == splitT0(toISOString(now))

\* date of the record-append effect of the other App: new Date().toISOString()
DateTimeWritten == toISOString(now)

\* a lesson of the sample topic is completed with the tallies of card: its
\* record, dated date, is appended and saved, and the statistics are computed
AppendRecord(date, card) ==
    /\ Rendered
    /\ userProgress.kind = "UserProgress"
    /\ Len(userProgress.records) < MaxRecords
    /\ LET updatedProgress ==
               UpdatedProgress(userProgress, RecordOf(date, card))
       IN  /\ storage' = saveProgress(updatedProgress)
           /\ userProgress' = updatedProgress
           /\ progressStats' = calculateStats(updatedProgress.records)
    /\ UNCHANGED <<lessonVars, envVars>>

-----------------------------------------------------------------------------
(* Initial states *)

\* the quiz result of a quiz submitted at once with no answer chosen
UnansweredQuiz(l) ==
    QuizResult(l.quiz, [i \in 1..Len(l.quiz) |-> <<>>], QUIZ_TIME_SECONDS)

\* 12:00 UTC of day 3
Noon == 3 * OneDay + 12

\* no lesson was asked for and no topics are offered
NoRequests ==
    /\ isLoading = FALSE
    /\ extractedTopics = <<>>
    /\ pending = {}
    /\ issued = 0
    /\ error = <<>>
    /\ isGeneratingTopics = FALSE
    /\ extracting = 0

\* the App's progress after its load effect found no stored item, and the
\* environment: a working localStorage and a clock on UTC
NoProgress ==
    /\ isKeyReady = TRUE
    /\ subject = Math
    /\ crashed = FALSE
    /\ userProgress = Progress(<<>>)
    /\ progressStats = NoStats
    /\ storage = <<>>
    /\ storageMode = "ok"
    /\ now = Noon
    /\ tz = 0
    /\ NoRequests

\* the App after setLesson(l), on the lesson tab
InitLesson(l) ==
    /\ NoProgress
    /\ lesson = <<l>>
    /\ activeTab = "lesson"
    /\ quizResults = <<>>
    /\ problemsResults = <<>>
    /\ userAnswers = <<>>
    /\ submitted = FALSE
    /\ timeLeft = 0
    /\ timerId = FALSE
    /\ effectPending = FALSE
    /\ lag = 0
    /\ mounts = 0
    /\ ignored = {}
    /\ completed = <<>>

\* the App right after the assessment of tab was mounted for lesson l: the
\* quiz tab was clicked, or the quiz was submitted unanswered and the problems
\* tab was clicked
InitMounted(l, tab) ==
    /\ NoProgress
    /\ lesson = <<l>>
    /\ activeTab = tab
    /\ quizResults = IF tab = "problems" THEN <<UnansweredQuiz(l)>> ELSE <<>>
    /\ problemsResults = <<>>
    /\ userAnswers = [i \in 1..Len(IF tab = "quiz" THEN l.quiz
                                   ELSE l.practiceProblems) |-> <<>>]
    /\ submitted = FALSE
    /\ timeLeft = Budget(tab)
    /\ timerId = TRUE
    /\ effectPending = FALSE
    /\ lag = 0
    /\ mounts = IF tab = "problems" THEN 2 ELSE 1
    /\ ignored = {}
    /\ completed = IF tab = "problems"
                   THEN <<[tab |-> "quiz", via |-> "click",
                           result |-> UnansweredQuiz(l), topic |-> l.topic]>>
                   ELSE <<>>

InitAssessment == \E tab \in Assessments : InitMounted(SampleLesson, tab)

InitScoring ==
    \/ \E q \in Quizzes :
          InitMounted([topic |-> SampleTopic, quiz |-> q,
                       practiceProblems |-> SampleProblems], "quiz")
    \/ \E p \in ProblemSets :
          InitMounted([topic |-> SampleTopic, quiz |-> SampleQuiz,
                       practiceProblems |-> p], "problems")

InitApp == InitLesson(SampleLesson)

\* the App before the key is ready (the useState initial values), with the
\* stored item, the storage mode, the clock and the time zone it will meet
InitUnloaded(item, mode, t, zone) ==
    /\ isKeyReady = FALSE
    /\ subject = Math
    /\ crashed = FALSE
    /\ userProgress = Progress(<<>>)
    /\ progressStats = NoStats
    /\ storage = item
    /\ storageMode = mode
    /\ now = t
    /\ tz = zone
    /\ NoRequests
    /\ lesson = <<>>
    /\ activeTab = "lesson"
    /\ quizResults = <<>>
    /\ problemsResults = <<>>
    /\ userAnswers = <<>>
    /\ submitted = FALSE
    /\ timeLeft = 0
    /\ timerId = FALSE
    /\ effectPending = FALSE
    /\ lag = 0
    /\ mounts = 0
    /\ ignored = {}
    /\ completed = <<>>

\* a stored history of past days met at any recent hour in any time zone; a
\* stored history of any tallies; any stored item under any storage mode
InitLoad ==
    \/ \E h \in DateHistories, t \in RecentHours, zone \in TZOffsets :
          InitUnloaded(<<JSONstringify(Progress(h))>>, "ok", t, zone)
    \/ \E h \in ScoreHistories :
          InitUnloaded(<<JSONstringify(Progress(h))>>, "ok",
                       MaxDay * OneDay + 12, 0)
    \/ \E item \in BrokenItems \cup {<<>>}
                    \cup {<<JSONstringify(Progress(h))>> : h \in DateHistories},
          mode \in StorageModes :
          InitUnloaded(item, mode, MaxDay * OneDay + 12, 0)

-----------------------------------------------------------------------------
(* Specifications *)

AnswerChange ==
    \E index \in 1..Len(userAnswers), value \in SampleInputs :
        HandleAnswerChange(index, value)

AnswerChangeAny ==
    \E index \in 1..Len(userAnswers), value \in AllInputs :
        HandleAnswerChange(index, value)

TabClick == \E tab \in Tabs : SetActiveTab(tab)

\* a tick within the first MaxElapsed seconds of the countdown
EarlyTick ==
    /\ Budget(activeTab) - timeLeft < MaxElapsed
    /\ IntervalTick

NextAssessment ==
    \/ IntervalTick
    \/ TimerEffectRun
    \/ AnswerChange
    \/ HandleSubmitClick

NextScoring ==
    \/ AnswerChangeAny
    \/ HandleSubmitClick

NextApp ==
    \/ EarlyTick
    \/ TimerEffectRun
    \/ AnswerChange
    \/ HandleSubmitClick
    \/ TabClick

\* the App after its load effect has read the stored history h
InitLoaded(h, t, zone) ==
    /\ isKeyReady = TRUE
    /\ subject = Math
    /\ crashed = FALSE
    /\ userProgress = Progress(h)
    /\ storage = <<JSONstringify(Progress(h))>>
    /\ storageMode = "ok"
    /\ now = t
    /\ tz = zone
    /\ NoRequests
    /\ progressStats = calculateStats(h)
    /\ lesson = <<>>
    /\ activeTab = "lesson"
    /\ quizResults = <<>>
    /\ problemsResults = <<>>
    /\ userAnswers = <<>>
    /\ submitted = FALSE
    /\ timeLeft = 0
    /\ timerId = FALSE
    /\ effectPending = FALSE
    /\ lag = 0
    /\ mounts = 0
    /\ ignored = {}
    /\ completed = <<>>

\* a loaded history with room for MaxAppends more records, at 08:00 UTC of
\* day MaxDay
InitRecords ==
    \E h \in {g \in DateHistories : Len(g) <= MaxRecords - MaxAppends},
       zone \in TZOffsets :
        InitLoaded(h, MaxDay * OneDay + 8, zone)

AppendDateWritten == AppendRecord(DateWritten, FullMarks)

AppendDateTimeWritten == AppendRecord(DateTimeWritten, FullMarks)

ClockRuns ==
    \E h \in {ClockStep, OneDay} :
        /\ now + h \in RecentHours
        /\ PassTime(h)

StorageChanges == \E mode \in StorageModes : StorageModeChange(mode)

NextRecords ==
    \/ AppendDateWritten
    \/ AppendDateTimeWritten
    \/ ClockRuns
    \/ StorageChanges

\* records appended to a loaded history as the clock runs, dated as either
\* App dates them
SpecRecords == InitRecords /\ [][NextRecords]_vars

NextDayRecords ==
    \/ AppendDateWritten
    \/ ClockRuns
    \/ StorageChanges

\* records appended to a loaded history as the clock runs, dated as App.tsx
\* dates them
SpecDayRecords == InitRecords /\ [][NextDayRecords]_vars

\* a stored history of no record, or of one record of the day before the
\* clock's
ShortHistories == {<<>>, <<RecordOf(DateOnly(MaxDay - 1), FullMarks)>>}

\* the App after its load effect has read a short history, offering the
\* topics of an earlier extraction; localStorage works or is full
InitProgress ==
    \E h \in ShortHistories, mode \in {"ok", "full"} :
        /\ isKeyReady = TRUE
        /\ subject = Math
        /\ crashed = FALSE
        /\ userProgress = Progress(h)
        /\ storage = <<JSONstringify(Progress(h))>>
        /\ storageMode = mode
        /\ now = MaxDay * OneDay + 8
        /\ tz = 0
        /\ progressStats = calculateStats(h)
        /\ isLoading = FALSE
        /\ extractedTopics = [n \in 1..MaxRequests |-> Topic(n)]
        /\ pending = {}
        /\ issued = 0
        /\ error = <<>>
        /\ isGeneratingTopics = FALSE
        /\ extracting = 0
        /\ lesson = <<>>
        /\ activeTab = "lesson"
        /\ quizResults = <<>>
        /\ problemsResults = <<>>
        /\ userAnswers = <<>>
        /\ submitted = FALSE
        /\ timeLeft = 0
        /\ timerId = FALSE
        /\ effectPending = FALSE
        /\ lag = 0
        /\ mounts = 0
        /\ ignored = {}
        /\ completed = <<>>

\* the next topic is typed and the Generate Lesson button is clicked
GenerateClick ==
    /\ issued < MaxRequests
    /\ ~isLoading
    /\ ~isGeneratingTopics
    /\ HandleGenerateLesson(Topic(issued + 1))

\* the button of the next topic is clicked
TopicClick ==
    /\ issued < MaxRequests
    /\ ~isGeneratingTopics
    /\ \E i \in 1..Len(extractedTopics) :
           /\ extractedTopics[i] = Topic(issued + 1)
           /\ HandleGenerateLesson(extractedTopics[i])

Resolves == \E r \in pending : GenerationResolve(r)

Fails == \E r \in pending : GenerationFail(r, LessonFailed)

Subjects == {Math, Science}

SubjectClick == \E s \in Subjects : HandleSubjectChange(s)

\* the first item is answered
AnswerFirst == \E value \in SampleInputs : HandleAnswerChange(1, value)

NextProgress ==
    \/ GenerateClick
    \/ TopicClick
    \/ Resolves
    \/ Fails
    \/ SubjectClick
    \/ TabClick
    \/ AnswerFirst
    \/ HandleSubmitClick

\* lessons asked for, taken and recorded
SpecProgress == InitProgress /\ [][NextProgress]_vars

\* the App after its load effect has found no stored progress, before any
\* request
InitRequests ==
    /\ isKeyReady = TRUE
    /\ subject = Math
    /\ crashed = FALSE
    /\ userProgress = Progress(<<>>)
    /\ storage = <<>>
    /\ storageMode = "ok"
    /\ now = MaxDay * OneDay + 8
    /\ tz = 0
    /\ progressStats = calculateStats(<<>>)
    /\ NoRequests
    /\ lesson = <<>>
    /\ activeTab = "lesson"
    /\ quizResults = <<>>
    /\ problemsResults = <<>>
    /\ userAnswers = <<>>
    /\ submitted = FALSE
    /\ timeLeft = 0
    /\ timerId = FALSE
    /\ effectPending = FALSE
    /\ lag = 0
    /\ mounts = 0
    /\ ignored = {}
    /\ completed = <<>>

\* what the topic input can hold when the Generate button is clicked: nothing,
\* a blank, or the next topic
TypedTopics == {<<>>, <<" ">>, Topic(issued + 1)}

\* the Generate button is clicked on a typed topic
GenerateTyped ==
    /\ issued < MaxRequests
    /\ ~isLoading
    /\ ~isGeneratingTopics
    /\ \E topic \in TypedTopics : HandleGenerateLesson(topic)

\* a generateLesson call rejects with any Error that the service throws
FailsWith ==
    \E r \in pending : \E message \in LessonErrors :
        GenerationFail(r, message)

\* the Khan Academy button is clicked
KhanClick ==
    /\ extracting < MaxExtractions
    /\ HandleKhanTopics

\* the file dialog is closed, with or without a file chosen
FileChange ==
    /\ extracting < MaxExtractions
    /\ \E files \in {<<>>, <<"syllabus">>} : HandleFileUpload(files)

ExtractionFails == \E message \in TopicsErrors : ExtractionFail(message)

NextRequests ==
    \/ GenerateTyped
    \/ TopicClick
    \/ Resolves
    \/ FailsWith
    \/ KhanClick
    \/ FileChange
    \/ ExtractionResolve
    \/ ExtractionFails
    \/ SubjectClick
    \/ TabClick
    \/ HandleSubmitClick

\* lessons and topics asked for, the calls settling in any order, and the
\* assessments of the lessons submitted unanswered
SpecRequests == InitRequests /\ [][NextRequests]_vars

NextCountdown ==
    \/ IntervalTick
    \/ TimerEffectRun
    \/ HandleSubmitClick

\* one mounted assessment whose interval keeps firing while it is registered
\* and whose timer effect runs after each render; the user submits it
\* unanswered at some time, or never does
LiveCountdown ==
    /\ InitAssessment
    /\ [][NextCountdown]_vars
    /\ WF_vars(IntervalTick)
    /\ WF_vars(TimerEffectRun)

NextLoad == HandleSelectKey

\* the App's first load of the stored progress, over all bounded stored items
SpecLoad == InitLoad /\ [][NextLoad]_vars

\* one mounted assessment with its countdown
SpecAssessment == InitAssessment /\ [][NextAssessment]_vars

\* handleSubmit over all bounded item lists and answer lists
SpecScoring == InitScoring /\ [][NextScoring]_vars

\* the App with its tabs
SpecApp == InitApp /\ [][NextApp]_vars

-----------------------------------------------------------------------------
(* Vocabulary of the properties *)

\* the onComplete calls made for the assessment of tab
CallsOf(tab) == SelectSeq(completed, LAMBDA e : e.tab = tab)

\* the result the App holds for the active assessment
ActiveResult ==
    IF activeTab = "quiz" THEN quizResults[1] ELSE problemsResults[1]

ItemIndexes == 1..Len(userAnswers)

\* s without its leading and trailing blanks
Core(s) ==
    LET solid == {i \in 1..Len(s) : s[i] # " "}
    IN  IF solid = {} THEN <<>>
        ELSE SubSeq(s, CHOOSE i \in solid : \A k \in solid : i <= k,
                       CHOOSE i \in solid : \A k \in solid : k <= i)

SameLetters(x, y) ==
    /\ Len(x) = Len(y)
    /\ \A i \in 1..Len(x) : x[i] = y[i] \/ {x[i], y[i]} = {"a", "A"}

\* item i of the active assessment is answered as its key says
AnsweredRight(i) ==
    IF activeTab = "quiz"
    THEN /\ userAnswers[i] # <<>>
         /\ userAnswers[i][1] = Items("quiz")[i].correctAnswerIndex
    ELSE SameLetters(Core(userAnswers[i]), Core(Items("problems")[i].answer))

ItemText(i) ==
    IF activeTab = "quiz" THEN Items("quiz")[i].questionText
    ELSE Items("problems")[i].problemText

KeyText(i) ==
    IF activeTab = "quiz"
    THEN Items("quiz")[i].options[Items("quiz")[i].correctAnswerIndex + 1]
    ELSE Items("problems")[i].answer

\* the mistakes of the held result that are about item i
MistakesAbout(i) ==
    {j \in 1..Len(ActiveResult.mistakes) :
        ActiveResult.mistakes[j].questionText = ItemText(i)}

WrongItems == {i \in ItemIndexes : ~AnsweredRight(i)}

\* the j-th smallest member of the set of indexes W
Nth(W, j) == CHOOSE i \in W : Cardinality({k \in W : k < i}) = j - 1

-----------------------------------------------------------------------------
(* C1: once submitted is true, no later event on the mounted assessment     *)
(* (handleAnswerChange, handleSubmit, a timer tick, an effect run) changes  *)
(* userAnswers, timeLeft or the result reported through onComplete.         *)
C1_Finality ==
    [][(submitted /\ mounts' = mounts) =>
          /\ userAnswers' = userAnswers
          /\ timeLeft' = timeLeft
          /\ completed' = completed
          /\ quizResults' = quizResults
          /\ problemsResults' = problemsResults]_vars

\* a submitted assessment on which both handlers were invoked again
C1_Witness ==
    /\ submitted
    /\ ignored = {"handleAnswerChange", "handleSubmit"}
    /\ Len(CallsOf(activeTab)) = 1

(* C2: once the quiz (or the problems) of the current lesson has been       *)
(* submitted, no sequence of events, tab switches included, brings that     *)
(* assessment back to InProgress or makes it report a second result.        *)
C2_SubmittedTerminal ==
    \A tab \in Assessments :
        /\ Len(CallsOf(tab)) <= 1
        /\ (activeTab = tab /\ CallsOf(tab) # <<>>) => submitted

C4_ScorePlusMistakes ==
    \A k \in 1..Len(completed) :
        LET e == completed[k]
        IN  /\ e.result.score + Len(e.result.mistakes) = Len(Items(e.tab))
            /\ e.result.total = Len(Items(e.tab))

\* a reported practice result with a correct, a wrong and an empty answer
C4_Witness ==
    /\ activeTab = "problems"
    /\ submitted
    /\ ActiveResult.score >= 1
    /\ \E i \in WrongItems : userAnswers[i] = <<>>

(* C5: when the countdown reaches 0 the assessment is submitted by the      *)
(* timer effect with the answers recorded then; score and mistakes are      *)
(* those of a manual submit with the same answers, and timeTaken equals     *)
(* the budget (300 for the quiz, 600 for practice).                         *)
C5_TimeoutAutoSubmit ==
    /\ (Mounted /\ timeLeft <= 0 /\ ~effectPending) => submitted
    /\ \A k \in 1..Len(completed) :
          LET e == completed[k]
          IN  e.via = "timer" =>
                /\ e.result.time = Budget(e.tab)
                /\ e.tab = activeTab =>
                      LET manual == Result(e.tab, userAnswers, 1)
                      IN  /\ e.result.score = manual.score
                          /\ e.result.mistakes = manual.mistakes

(* C6: in every state of a mounted assessment 0 <= timeLeft <= budget, and  *)
(* every reported timeTaken lies in 0..budget.                              *)
C6_TimeWithinBudget ==
    /\ Mounted => timeLeft \in 0..Budget(activeTab)
    /\ \A k \in 1..Len(completed) :
          completed[k].result.time \in 0..Budget(completed[k].tab)

(* C7: index mode: a quiz item is counted correct exactly when its answer   *)
(* is a non-null index equal to correctAnswerIndex; a null answer is never  *)
(* correct and always gives a mistake whose userAnswer is "No answer".      *)
C7_IndexMode ==
    (activeTab = "quiz" /\ submitted) =>
        /\ ActiveResult.score
              = Cardinality({i \in ItemIndexes : AnsweredRight(i)})
        /\ \A i \in ItemIndexes :
              /\ AnsweredRight(i) <=> MistakesAbout(i) = {}
              /\ userAnswers[i] = <<>> =>
                    /\ MistakesAbout(i) # {}
                    /\ \A j \in MistakesAbout(i) :
                          ActiveResult.mistakes[j].userAnswer = NoAnswer

\* a submitted quiz with an unanswered question whose key is option 0, and
\* another question answered right
C7_Witness ==
    /\ activeTab = "quiz"
    /\ submitted
    /\ \E i \in ItemIndexes :
          /\ userAnswers[i] = <<>>
          /\ Items("quiz")[i].correctAnswerIndex = 0
    /\ \E i \in ItemIndexes : AnsweredRight(i)

(* C8: text mode: a practice item is counted correct exactly when the       *)
(* user's answer and the canonical answer are equal after trimming leading  *)
(* and trailing whitespace and lower-casing both.                           *)
C8_TextMode ==
    (activeTab = "problems" /\ submitted) =>
        /\ ActiveResult.score
              = Cardinality({i \in ItemIndexes : AnsweredRight(i)})
        /\ \A i \in ItemIndexes : AnsweredRight(i) <=> MistakesAbout(i) = {}

\* submitted problems with an answer counted correct that differs from the
\* canonical answer in case and in a trailing blank, and another answer wrong
C8_Witness ==
    /\ activeTab = "problems"
    /\ submitted
    /\ \E i \in ItemIndexes :
          /\ userAnswers[i] = <<"A", " ">>
          /\ Items("problems")[i].answer = <<"a">>
          /\ MistakesAbout(i) = {}
    /\ \E i \in ItemIndexes : userAnswers[i] = <<"a", "a">> /\ ~AnsweredRight(i)

(* C9 as stated: text mode, when a practice answer is the empty string and  *)
(* the item is incorrect, the mistake's userAnswer is the empty string      *)
(* passed through; text mode never substitutes the "No answer" sentinel.    *)
C9_EmptyPassedThrough ==
    (activeTab = "problems" /\ submitted) =>
        /\ \A i \in ItemIndexes :
              userAnswers[i] = <<>> =>
                  \A j \in MistakesAbout(i) :
                      ActiveResult.mistakes[j].userAnswer = <<>>
        /\ \A j \in 1..Len(ActiveResult.mistakes) :
              ActiveResult.mistakes[j].userAnswer # NoAnswer

(* C9 amended: text mode, when a practice answer is the empty string and    *)
(* the item is incorrect, the mistake's userAnswer is the "No answer"       *)
(* sentinel; every non-empty answer, a blank one included, is passed        *)
(* through unchanged.                                                       *)
C9_EmptyBecomesNoAnswer ==
    (activeTab = "problems" /\ submitted) =>
        \A i \in ItemIndexes : \A j \in MistakesAbout(i) :
            ActiveResult.mistakes[j].userAnswer
                = (IF userAnswers[i] = <<>> THEN NoAnswer ELSE userAnswers[i])

\* submitted problems with an empty wrong answer and a blank wrong answer
C9_Witness ==
    /\ activeTab = "problems"
    /\ submitted
    /\ \E i \in WrongItems : userAnswers[i] = <<>>
    /\ \E i \in WrongItems : userAnswers[i] = <<" ">>

(* C10: the mistakes list has one entry for each incorrect or unanswered    *)
(* item and none for a correct item, in the original item order; each       *)
(* entry carries that item's text and its correct answer.                   *)
C10_MistakesList ==
    (Mounted /\ submitted) =>
        /\ Len(ActiveResult.mistakes) = Cardinality(WrongItems)
        /\ \A j \in 1..Len(ActiveResult.mistakes) :
              LET i == Nth(WrongItems, j)
              IN  /\ ActiveResult.mistakes[j].questionText = ItemText(i)
                  /\ ActiveResult.mistakes[j].correctAnswer = KeyText(i)

\* a submitted quiz with two wrong items, one of them unanswered
C10_Witness ==
    /\ activeTab = "quiz"
    /\ submitted
    /\ Cardinality(WrongItems) = 2
    /\ \E i \in WrongItems : userAnswers[i] # <<>>
    /\ \E i \in WrongItems : userAnswers[i] = <<>>

-----------------------------------------------------------------------------
(* Vocabulary of the properties about progress *)

\* the App holds a UserProgress that its load effect or its record-append
\* effect has set
Loaded == isKeyReady /\ ~crashed /\ userProgress.kind = "UserProgress"

Records == userProgress.records

\* the calendar days that the date strings of the history name
RecordedDays == {Records[i].date.day : i \in 1..Len(Records)}

\* the calendar day of the clock where the user is
Today == (now + tz) \div 24

\* the clock shows the same calendar day in UTC and where the user is
OneToday == Today = now \div 24

Latest(days) == CHOOSE d \in days : \A e \in days : e <= d

\* the length of the run of consecutive days of the set that ends at day d
RunEndingAt(days, d) ==
    CHOOSE n \in 1..Cardinality(days) :
        /\ \A k \in 0..(n - 1) : d - k \in days
        /\ d - n \notin days

LongestRun(days) ==
    IF days = {} THEN 0
    ELSE CHOOSE n \in 1..Cardinality(days) :
             /\ \E d \in days : RunEndingAt(days, d) = n
             /\ \A d \in days : RunEndingAt(days, d) <= n

-----------------------------------------------------------------------------
(* C11: currentStreak of calculateStats is the length of the run of         *)
(* consecutive calendar days that ends at the most recent recorded day      *)
(* when that day is today or yesterday at the moment of computation, and is *)
(* 0 for every other most recent day.  "Today" is taken at moments when     *)
(* the UTC day and the user's day are the same day.                         *)
C11_CurrentStreak ==
    (Loaded /\ Records # <<>> /\ OneToday) =>
        progressStats.currentStreak
            = (IF Latest(RecordedDays) \in {Today, Today - 1}
               THEN RunEndingAt(RecordedDays, Latest(RecordedDays))
               ELSE 0)

Appends == Loaded' /\ Loaded /\ Len(Records') = Len(Records) + 1

LastRecord == Records[Len(Records)]

(* C13: for any history, appending a record whose calendar day already      *)
(* occurs in the history increases lessonsCompleted by exactly 1 and leaves *)
(* currentStreak and longestStreak as calculateStats gives them for the     *)
(* history before, for the dates that the record creation writes.           *)
C13_SameDayRecord ==
    [][(Appends /\ LastRecord'.date.day \in RecordedDays) =>
          /\ progressStats'.lessonsCompleted
                 = calculateStats(Records).lessonsCompleted + 1
          /\ progressStats'.currentStreak
                 = calculateStats(Records).currentStreak
          /\ progressStats'.longestStreak
                 = calculateStats(Records).longestStreak]_vars

RECURSIVE SumScores(_)
\* the points scored over all records, quiz and problems together
SumScores(rs) ==
    IF rs = <<>> THEN 0
    ELSE rs[1].quizScore + rs[1].problemsScore + SumScores(Tail(rs))

RECURSIVE SumTotals(_)
\* the points that could be scored over all records
SumTotals(rs) ==
    IF rs = <<>> THEN 0
    ELSE rs[1].quizTotal + rs[1].problemsTotal + SumTotals(Tail(rs))

\* x / y rounded to the nearest integer, halves up, for x >= 0 and y > 0
Round(x, y) == (2 * x + y) \div (2 * y)

(* C14: averageScore equals round(100 * sum(quizScore + problemsScore) /    *)
(* sum(quizTotal + problemsTotal)) over all records of the history, and 0   *)
(* when the summed total is 0.                                              *)
C14_AverageScore ==
    Loaded =>
        progressStats.averageScore
            = (IF SumTotals(Records) = 0 THEN 0
               ELSE Round(100 * SumScores(Records), SumTotals(Records)))

\* the stored item is absent, cannot be read, or holds no UserProgress
NothingStored ==
    \/ storage = <<>>
    \/ storageMode = "denied"
    \/ storage[1].syntax # "json"
    \/ storage[1].value.kind # "UserProgress"

(* C15: loadProgress never throws to its caller and returns a UserProgress  *)
(* whose records is a sequence; it returns {records: []} when the key is    *)
(* absent, when reading throws, and when the stored item is unparseable or  *)
(* is valid JSON that is not an object with a records array. So once the    *)
(* load effect has run, the App holds a UserProgress and has not failed.    *)
C15_LoadDegrades ==
    isKeyReady =>
        /\ ~crashed
        /\ userProgress.kind = "UserProgress"
        /\ NothingStored => userProgress = Progress(<<>>)

\* the result held for tab is that of the last onComplete call of tab, and
\* that call was made by an assessment of the current lesson
ResultFor(tab) ==
    LET held == IF tab = "quiz" THEN quizResults ELSE problemsResults
        calls == CallsOf(tab)
    IN  /\ lesson # <<>>
        /\ held # <<>>
        /\ calls # <<>>
        /\ calls[Len(calls)].result = held[1]
        /\ calls[Len(calls)].topic = lesson[1].topic

BothResults == ResultFor("quiz") /\ ResultFor("problems")

\* the last record holds the fields of the two results, quiz mistakes first
RecordOfResults ==
    /\ LastRecord.quizScore = quizResults[1].score
    /\ LastRecord.quizTotal = quizResults[1].total
    /\ LastRecord.quizTimeTaken = quizResults[1].time
    /\ LastRecord.problemsScore = problemsResults[1].score
    /\ LastRecord.problemsTotal = problemsResults[1].total
    /\ LastRecord.problemsTimeTaken = problemsResults[1].time
    /\ LastRecord.mistakes = quizResults[1].mistakes \o problemsResults[1].mistakes

(* C19: a LessonRecord is appended when, and only when, both a quiz result  *)
(* and a problems result exist for the current lesson; its score, total and *)
(* time fields equal those two results and its mistakes are the quiz        *)
(* mistakes followed by the problems mistakes. The records do not change    *)
(* while either result is missing or no lesson is loaded.                   *)
C19_RecordAppended ==
    [][/\ (~BothResults /\ BothResults') => Appends
       /\ Appends => (BothResults' /\ RecordOfResults')
       /\ Records' # Records => Appends]_vars

\* s is a prefix of t
IsPrefix(s, t) == Len(s) <= Len(t) /\ SubSeq(t, 1, Len(s)) = s

\* this step is a completion of the problems that leaves both results held
CompletesLesson ==
    /\ Len(CallsOf("problems")') = Len(CallsOf("problems")) + 1
    /\ quizResults' # <<>>

(* C17: the history is append-only: after the initial load every step of    *)
(* the App leaves the earlier records a prefix of the later ones (none is   *)
(* removed, reordered or modified), and a lesson completion adds its record *)
(* at the end.                                                              *)
C17_AppendOnly ==
    [][/\ IsPrefix(Records, Records')
       /\ CompletesLesson =>
              /\ Records' = Append(Records, LastRecord')
              /\ LastRecord'.topic
                     = lesson[1].topic \o <<" ", "(">> \o subject \o <<")">>]_vars

\* a lesson was completed twice on top of a stored record
C17_Witness ==
    /\ Len(Records) = 3
    /\ Len(CallsOf("problems")) = 2
    /\ storage = <<JSONstringify(userProgress)>>

C18_StatsFresh ==
    Loaded => progressStats = calculateStats(Records)

\* what the stored item decodes to
Stored == JSONparse(storage[1]).value

(* C20 as claimed: after each lesson completion the stored item decodes to  *)
(* exactly the in-memory records.                                           *)
C20_StoredEqualsMemory ==
    [][Appends => (storage' # <<>> /\ Stored'.records = Records')]_vars

(* C20 as the code has it: an append whose setItem does not throw stores    *)
(* the complete in-memory history; one whose setItem throws leaves the      *)
(* stored item as it was.                                                   *)
C20_CompleteSnapshot ==
    [][Appends =>
          IF storageMode = "ok"
          THEN storage' # <<>> /\ Stored'.records = Records'
          ELSE storage' = storage]_vars

\* a second record was appended and stored
C20_Witness ==
    /\ storageMode = "ok"
    /\ Len(CallsOf("problems")) = 1
    /\ Len(Records) = 2
    /\ Stored.records = Records

Swap(seq, i, j) == [seq EXCEPT ![i] = seq[j], ![j] = seq[i]]

(* C30: calculateStats is independent of record order: the stats of the     *)
(* loaded records equal, at the same now, the stats of the same records     *)
(* with any two neighbours exchanged. Every list of the bounded histories  *)
(* is loaded, and such exchanges generate every permutation, so all four    *)
(* fields are equal for every permutation of every list.                    *)
C30_OrderIndependent ==
    Loaded =>
        \A i \in 1..(Len(Records) - 1) :
            calculateStats(Swap(Records, i, i + 1)) = progressStats

\* days recorded out of order that form one run reaching yesterday or today
C30_Witness ==
    /\ Loaded
    /\ Len(Records) = 3
    /\ Records[1].date.day < Records[3].date.day
    /\ Records[3].date.day < Records[2].date.day
    /\ progressStats.longestStreak = 3
    /\ progressStats.currentStreak = 3

Rejected(topic) ==
    HandleGenerateLesson(topic) =>
        /\ error' = <<PleaseEnterATopic>>
        /\ pending' = pending
        /\ issued' = issued
        /\ UNCHANGED <<lesson, quizResults, problemsResults, isLoading,
                       activeTab>>

\* C21: handleGenerateLesson rejects an empty or whitespace-only topic before
\* any generation request: it sets the error 'Please enter a topic.', issues no
\* call of generateLesson, and leaves the lesson, the quiz and problems
\* results, isLoading and the active tab unchanged
C21_BlankTopicRejected == [][Rejected(<<>>) /\ Rejected(<<" ">>)]_vars

\* the part of C21 about the empty topic
C21_EmptyTopicRejected == [][Rejected(<<>>)]_vars

\* the empty topic was rejected while a lesson was shown
C21_EmptyWitness == error = <<PleaseEnterATopic>> /\ lesson # <<>>

\* the Errors thrown for an access key that is missing or not valid
KeyErrors == {KeyNotFound, KeyNotValid}

\* a generation or extraction call fails with message
FailsBy(message) ==
    \/ \E r \in pending : GenerationFail(r, message)
    \/ ExtractionFail(message)

\* C22: whenever a generation or extraction call fails because the access key
\* is invalid or missing, the App returns to the credential-entry state:
\* isKeyReady is false afterwards
C22_KeyFailureToKeyEntry ==
    [][\A message \in KeyErrors : FailsBy(message) => ~isKeyReady']_vars

\* what the App does instead: the key stays ready whatever fails
C22_KeyStaysReady == isKeyReady

\* a call failed for its key and the App shows the message on the main view
C22_KeyErrorShown == error # <<>> /\ error[1] \in KeyErrors /\ isKeyReady

\* the lesson held is the result of the request issued last
HoldsLatest == lesson # <<>> /\ lesson[1].topic = Topic(issued)

\* the last call in flight, issued before the one whose lesson is held,
\* resolves: both of two overlapping requests have then resolved
EarlierResolvesLast ==
    \E r \in pending :
        /\ pending = {r}
        /\ r.id < issued
        /\ HoldsLatest
        /\ GenerationResolve(r)

\* C23: if two generation requests overlap then, after both have resolved in
\* either order, the lesson held is the result of the later-issued request;
\* and isLoading is false only when no request is still in flight
C23_LaterIssuedWins ==
    /\ [][EarlierResolvesLast => HoldsLatest']_vars
    /\ [](~isLoading => pending = {})

\* the part of C23 about the order of resolution alone
C23_LessonOfLatest == [][EarlierResolvesLast => HoldsLatest']_vars

\* the part of C23 about isLoading alone
C23_LoadingWhileInFlight == ~isLoading => pending = {}

\* what the App does: the lesson held is the result of the call that
\* resolved last
C23_LastResolvedWins ==
    [][\A r \in pending :
           GenerationResolve(r) => lesson' = <<GeneratedLesson(r)>>]_vars

\* C29: the problems tab cannot be active, and no problems result can be held,
\* while the current lesson has no quiz result: whenever a lesson is shown,
\* an active problems tab and a problems result each imply a quiz result of
\* that same lesson
C29_ProblemsAfterQuiz ==
    lesson # <<>> =>
        /\ activeTab = "problems" => ResultFor("quiz")
        /\ problemsResults # <<>> => ResultFor("quiz")

\* what holds of the values alone: the problems tab is active, or a problems
\* result is held, only when some quiz result is held
C29_SomeQuizResult ==
    /\ (lesson # <<>> /\ activeTab = "problems") => quizResults # <<>>
    /\ problemsResults # <<>> => quizResults # <<>>

\* a problems result is held together with a quiz result of the same lesson
C29_BothHeld == BothResults

\* the records appended for the lesson of request n
RecordsOf(n) ==
    {i \in 1..Len(Records) :
        \E s \in Subjects :
            Records[i].topic = Topic(n) \o <<" ", "(">> \o s \o <<")">>}

\* C26: at most one LessonRecord is appended per generated lesson, whatever
\* quiz and problems submissions, tab switches and remounts follow its
\* generation
C26_OneRecordPerLesson ==
    Loaded => \A n \in 1..issued : Cardinality(RecordsOf(n)) <= 1

\* one record was appended for the lesson shown
C26_OneAppended ==
    /\ Loaded
    /\ lesson # <<>>
    /\ \E n \in 1..issued :
           lesson[1].topic = Topic(n) /\ Cardinality(RecordsOf(n)) = 1

\* the tallies of record r are within their totals and its mistakes are as
\* many as the points lost
WellFormed(r) ==
    /\ 0 <= r.quizScore /\ r.quizScore <= r.quizTotal
    /\ 0 <= r.problemsScore /\ r.problemsScore <= r.problemsTotal
    /\ Len(r.mistakes) = (r.quizTotal - r.quizScore)
                           + (r.problemsTotal - r.problemsScore)

\* C27: every appended record has 0 <= quizScore <= quizTotal,
\* 0 <= problemsScore <= problemsTotal and as many mistakes as points lost,
\* both results being those of assessments of the lesson current at the
\* append; hence the average score stays within 0..100
C27_RecordOfCurrentLesson ==
    [][Appends =>
           /\ WellFormed(LastRecord')
           /\ BothResults'
           /\ RecordOfResults'
           /\ progressStats'.averageScore \in 0..100]_vars

\* the part of C27 about the values of the record and the average alone
C27_RecordWellFormed ==
    [][Appends =>
           /\ WellFormed(LastRecord')
           /\ RecordOfResults'
           /\ progressStats'.averageScore \in 0..100]_vars

\* a record with points lost in the quiz was appended
C27_PointsLost ==
    /\ Len(Records) >= 1
    /\ LastRecord.quizScore < LastRecord.quizTotal
    /\ 0 < LastRecord.quizScore
    /\ BothResults

\* the ticks of the countdown of the mounted assessment so far
Ticks == Budget(activeTab) - timeLeft

\* C24, the countdown of a mounted assessment while ticks keep occurring:
\* timeLeft starts at the budget and decreases by exactly 1 per tick; the
\* assessment is eventually Submitted, after at most budget ticks, even if
\* the user never submits; no interval remains after the submission
C24_CountdownEnds ==
    /\ Ticks = 0
    /\ [][timeLeft' # timeLeft => timeLeft' = timeLeft - 1]_vars
    /\ <>submitted
    /\ [](Ticks <= Budget(activeTab))
    /\ [](submitted => ~timerId)

\* the parts of C24 that hold: the start, the step, the end and the
\* clearing of the interval
C24_EventuallySubmitted ==
    /\ Ticks = 0
    /\ [][timeLeft' # timeLeft => timeLeft' = timeLeft - 1]_vars
    /\ <>submitted
    /\ [](submitted => ~timerId)

\* the part of C24 about unmounting: no interval is registered once the
\* assessment is submitted or unmounted
C24_NoIntervalLeft == (submitted \/ ~Mounted) => ~timerId

\* the part of C24 that fails: the number of ticks before the submission
C24_TicksWithinBudget == Ticks <= Budget(activeTab)

\* the ticks exceed the budget by less than the lag of the timer effect
C24_TicksWithinLag == Ticks < Budget(activeTab) + MaxLag

\* the countdown ran out and submitted the assessment
C24_TimedOut ==
    /\ submitted
    /\ completed # <<>>
    /\ completed[Len(completed)].via = "timer"
    /\ Ticks >= Budget(activeTab)

====
